---- MODULE Spec2Model ----
(***************************************************************************)
(* Ledger & session engine of the SpritzMoon backend (src/app.py).         *)
(*                                                                         *)
(* The store is the SQLite database: the tables users, mining_sessions,    *)
(* transactions, blockchain_blocks and system_stats.  Every request        *)
(* handler runs in its own thread with its own connection.  A SELECT runs  *)
(* in autocommit mode and sees the committed store at that moment; the     *)
(* INSERT/UPDATE statements of a handler up to its conn.commit() form one  *)
(* SQLite write transaction, applied here as one step.  Between a          *)
(* handler's reads and its commit other handlers may read and commit.      *)
(*                                                                         *)
(* Units: amounts are integers in 1/10000 SPM (the code rounds to 4        *)
(* decimals), mining rates are in 1/1000 SPM per minute (the code rounds   *)
(* to 3 decimals), time is in seconds.                                     *)
(***************************************************************************)
EXTENDS Integers, Sequences, FiniteSets, TLC

VARIABLES users, sessions, transactions, blocks, stats,
          lock, req, tick, committed, restarts

vars == <<users, sessions, transactions, blocks, stats,
          lock, req, tick, committed, restarts>>

store == <<users, sessions, transactions, blocks, stats>>

(***************************************************************************)
(* Bounds of the model.                                                    *)
(***************************************************************************)
MaxThreads == 2
MaxTicks == 1
MaxRestarts == 1
\* the sequential runs that grow the block chain
MaxChainTicks == 1
MaxChainRestarts == 10
\* the concurrent runs of start and stop on one device
MaxMiningTicks == 1
MaxMiningRestarts == 2
\* the sequential runs of faucet claims over more than 24 hours
MaxFaucetTicks == 3
MaxFaucetRestarts == 3

(***************************************************************************)
(* Program constants.                                                      *)
(***************************************************************************)
Scale == 10000
FaucetSPM == 100
CooldownHours == 24
BlockCapacity == 10
DefaultRateMilli == 100
RateBaseMilli == 50
HashModulus == 100
HashRatePerMinerTenths == 5

FaucetAmount == FaucetSPM * Scale
Cooldown == CooldownHours * 3600
ActiveWindow == 24 * 3600

Threads == 1..MaxThreads
DeviceIds == {"d1", "d2"}
ChainIds == {"d1"}
Amounts == {0, 50 * Scale, 100 * Scale}
NoTime == -1
Absent == -1

\* The server clock: a non-decreasing sequence of instants 0, 1, 24h, 24h+1, ...
TimeOf(i) == (i \div 2) * Cooldown + (i % 2)
Now == TimeOf(tick)

\* hash(device_id) % 100 for the identifiers of the model
HashMod100(id) == CASE id = "d1" -> 0
                    [] id = "d2" -> 99
                    [] OTHER -> 37

\* round(0.05 + (hash(device_id) % 100) / 1000, 3), in 1/1000 SPM per minute
MiningRateOf(id) == RateBaseMilli + (HashMod100(id) % HashModulus)

\* round(n / d) to the nearest integer, ties to even (Python's round)
RoundDiv(n, d) ==
    LET q == n \div d
        r == n % d
    IN  IF 2 * r < d THEN q
        ELSE IF 2 * r > d THEN q + 1
        ELSE IF q % 2 = 0 THEN q ELSE q + 1

\* round(x, 4) of an amount already expressed in 1/10000 SPM
Round4(x) == RoundDiv(x, 1)

\* earned = round(duration_seconds / 60 * mining_rate, 4)
Earned(duration, rate) == RoundDiv(duration * rate * (Scale \div 1000), 60)

\* sha256(f"{number}{previous_hash}{timestamp}"): an injective digest
BlockHash(number, prev, ts) == <<number, prev, ts>>
GenesisHash == <<"SpritzMoon Genesis Block">>
GenesisPrev == <<"genesis">>

NewUser(rate, now) ==
    [balance |-> 0, mining_rate |-> rate, last_faucet_claim |-> NoTime,
     registration_time |-> now, last_activity |-> now,
     total_mined |-> 0, total_sent |-> 0, total_received |-> 0]

InitStats == [total_blocks |-> 1, total_users |-> 0, active_users |-> 0,
              total_transactions |-> 1, total_hash_rate |-> 0]

\* A thread that serves no request, and the locals of a handler
Free == [pc |-> "done", op |-> "none", dev |-> "", to |-> "", amt |-> 0,
         bal |-> 0, tobal |-> 0, sid |-> 0, earned |-> 0, ts |-> 0,
         n1 |-> 0, n2 |-> 0, n3 |-> 0, out |-> 0, out2 |-> 0, seq |-> 0,
         code |-> "ok"]


Kinds == {"registration", "mining_start", "mining_reward", "faucet", "transfer"}

Init ==
    /\ users = << >>
    /\ sessions = << >>
    /\ blocks = <<[block_number |-> 0, block_hash |-> GenesisHash,
                   previous_hash |-> GenesisPrev, timestamp |-> 0,
                   transactions_count |-> 1]>>
    /\ transactions = <<[type |-> "genesis", from |-> "system", to |-> "blockchain",
                         amount |-> 0, timestamp |-> 0, block_hash |-> GenesisHash]>>
    /\ stats = InitStats
    /\ lock = 0
    /\ req = [t \in Threads |-> Free]
    /\ tick = 0
    /\ committed = [k \in Kinds |-> 0]
    /\ restarts = 0


(***************************************************************************)
(* Helpers over the store.                                                 *)
(***************************************************************************)
Exists(id) == id \in DOMAIN users

\* The position of the next conn.commit() of a handler among all of them
CommitSeq ==
    committed["registration"] + committed["mining_start"] + committed["mining_reward"]
        + committed["faucet"] + committed["transfer"] + 1

IsFree(t) == req[t].pc = "done"

\* The handler of thread t returns its JSON response; the thread is free.
Reply(t) == req' = [req EXCEPT ![t] = Free]

\* The handler of thread t goes on with the locals r.
Goto(t, r) == req' = [req EXCEPT ![t] = r]

\* a handler that refreshes last_activity before it validates the request
RejectAfterTouch(t, r, code) ==
    /\ Goto(t, [r EXCEPT !.pc = "err", !.code = code])
    /\ users' = [d \in DOMAIN users |->
                    IF d = r.dev THEN [users[d] EXCEPT !.last_activity = Now]
                    ELSE users[d]]
    /\ UNCHANGED <<sessions, transactions, blocks, stats>>

\* The handler of thread t, serving the request r, has found the domain error
\* `code`: it closes its connection without a write and is about to answer.
Reject(t, r, code) ==
    /\ Goto(t, [r EXCEPT !.pc = "err", !.code = code])
    /\ UNCHANGED store

\* The handler goes on after a read that wrote nothing.
Proceed(t, r) ==
    /\ Goto(t, r)
    /\ UNCHANGED store

\* The identifiers a client may send: the known ones and the missing one
ClientIds(ids) == ids \cup {""}

RECURSIVE SumBalances(_, _)
SumBalances(rows, ids) ==
    IF ids = {} THEN 0
    ELSE LET d == CHOOSE x \in ids : TRUE
         IN  rows[d].balance + SumBalances(rows, ids \ {d})

\* SELECT * FROM mining_sessions WHERE device_id = ? AND status = 'active'
ActiveSessions(dev) ==
    {i \in DOMAIN sessions : sessions[i].device_id = dev /\ sessions[i].status = "active"}

\* ... ORDER BY start_time DESC LIMIT 1 (rows with equal start_time: either)
LatestActive(dev) ==
    {i \in ActiveSessions(dev) :
        \A j \in ActiveSessions(dev) : sessions[j].start_time <= sessions[i].start_time}

\* the lowest block number in place of the highest
MinBlockNumber ==
    IF blocks = << >> THEN 0
    ELSE LET i == CHOOSE k \in DOMAIN blocks :
                    \A j \in DOMAIN blocks : blocks[k].block_number <= blocks[j].block_number
         IN  blocks[i].block_number

\* SELECT MAX(block_number) FROM blockchain_blocks
MaxBlockNumber ==
    IF blocks = << >> THEN 0
    ELSE LET i == CHOOSE k \in DOMAIN blocks :
                    \A j \in DOMAIN blocks : blocks[j].block_number <= blocks[k].block_number
         IN  blocks[i].block_number

\* SELECT block_hash FROM blockchain_blocks WHERE block_number = ?
HashOfBlock(n) ==
    blocks[CHOOSE k \in DOMAIN blocks : blocks[k].block_number = n].block_hash

\* SELECT COUNT(*) FROM transactions WHERE block_hash IS NOT NULL
TxCount == Cardinality({i \in DOMAIN transactions : transactions[i].block_hash # << >>})

\* a new block for every transaction
NeedNewBlockAlways(tx_count) == tx_count > 0

\* if tx_count % 10 == 0 and tx_count > 0
NeedNewBlock(tx_count) == tx_count % BlockCapacity = 0 /\ tx_count > 0

\* a block number that repeats the current one
NewBlockNumberRepeated(current) == current

\* new_block_number = current_block + 1
NewBlockNumber(current) == current + 1

\* previous_hash of a new block: the hash of the current block
NewPreviousHash(current) == HashOfBlock(current)

\* no check of the balance at all
InsufficientBalanceUnchecked(balance, amount) == FALSE

\* if sender['balance'] < amount
InsufficientBalance(balance, amount) == balance < amount

\* if not all([from_device, to_device, amount > 0]) ... if from_device == to_device
InvalidTransfer(from, to, amount) ==
    from = "" \/ to = "" \/ ~(amount > 0) \/ from = to

\* datetime.now() - last_claim < timedelta(hours=24)
InCooldown(last, now) == last # NoTime /\ now - last < Cooldown

\* What each handler answers on the store as it is, before it writes anything
BalanceOutcome(dev) ==
    IF dev = "" THEN "InvalidArgument"
    ELSE IF ~Exists(dev) THEN "NotFound" ELSE "ok"

StartOutcome(dev) ==
    IF dev = "" THEN "InvalidArgument"
    ELSE IF ~Exists(dev) THEN "NotFound"
    ELSE IF ActiveSessions(dev) # {} THEN "Conflict" ELSE "ok"

StopOutcome(dev) ==
    IF dev = "" THEN "InvalidArgument"
    ELSE IF ActiveSessions(dev) = {} THEN "InvalidState" ELSE "ok"

FaucetOutcome(dev) ==
    IF dev = "" THEN "InvalidArgument"
    ELSE IF ~Exists(dev) THEN "NotFound"
    ELSE IF InCooldown(users[dev].last_faucet_claim, Now) THEN "Cooldown" ELSE "ok"

TransferOutcome(from, to, amount) ==
    IF InvalidTransfer(from, to, amount) THEN "InvalidArgument"
    ELSE IF ~Exists(from) THEN "NotFound"
    ELSE IF InsufficientBalance(users[from].balance, amount) THEN "InsufficientBalance"
    ELSE "ok"

\* a transfer logged as the registration of its recipient
PendingTxRegistersRecipient(r) ==
    CASE r.op = "register" ->
           [type |-> "registration", from |-> "system", to |-> r.dev, amount |-> 0]
      [] r.op = "start" ->
           [type |-> "mining_start", from |-> r.dev, to |-> "mining_pool", amount |-> 0]
      [] r.op = "stop" ->
           [type |-> "mining_reward", from |-> "mining_pool", to |-> r.dev,
            amount |-> r.earned]
      [] r.op = "faucet" ->
           [type |-> "faucet", from |-> "faucet_pool", to |-> r.dev,
            amount |-> FaucetAmount]
      [] OTHER ->
           [type |-> "registration", from |-> "system", to |-> r.to, amount |-> 0]

\* The transaction each handler hands to add_transaction_to_blockchain
PendingTx(r) ==
    CASE r.op = "register" ->
           [type |-> "registration", from |-> "system", to |-> r.dev, amount |-> 0]
      [] r.op = "start" ->
           [type |-> "mining_start", from |-> r.dev, to |-> "mining_pool", amount |-> 0]
      [] r.op = "stop" ->
           [type |-> "mining_reward", from |-> "mining_pool", to |-> r.dev,
            amount |-> r.earned]
      [] r.op = "faucet" ->
           [type |-> "faucet", from |-> "faucet_pool", to |-> r.dev,
            amount |-> FaucetAmount]
      [] OTHER ->
           [type |-> "transfer", from |-> r.dev, to |-> r.to, amount |-> r.amt]

\* The timestamp of a handler's first write statement: datetime.now() is taken
\* before the statement waits for SQLite's write lock, so it lies between the
\* handler's last read and its commit.
FirstWriteTimes(r) == {r.ts, Now}

(***************************************************************************)
(* register_device                                                         *)
(***************************************************************************)
RegisterRead(t, ids) ==
    /\ IsFree(t)
    /\ \E existing \in ClientIds(ids) :
         LET r == [Free EXCEPT !.op = "register", !.dev = existing, !.ts = Now]
         IN  IF existing # "" /\ Exists(existing)
             THEN Goto(t, [r EXCEPT !.pc = "reg_touch",
                                    !.bal = users[existing].balance,
                                    !.n1 = users[existing].mining_rate])
             ELSE Goto(t, [r EXCEPT !.pc = "reg_new"])
    /\ UNCHANGED <<store, lock, tick, committed, restarts>>

\* a reconnect that also logs a registration
RegisterTouchAndLog(t) ==
    /\ req[t].pc = "reg_touch"
    /\ users' = [users EXCEPT ![req[t].dev].last_activity = Now]
    /\ Goto(t, [req[t] EXCEPT !.pc = "tx_lock"])
    /\ UNCHANGED <<sessions, transactions, blocks, stats, lock, tick, committed, restarts>>

\* The reconnect path answers the balance and rate it read
RegisterTouch(t) ==
    /\ req[t].pc = "reg_touch"
    /\ \E now \in FirstWriteTimes(req[t]) :
         users' = [users EXCEPT ![req[t].dev].last_activity = now]
    /\ Reply(t)
    /\ UNCHANGED <<sessions, transactions, blocks, stats, lock, tick, committed, restarts>>

RegisterNew(t, ids) ==
    /\ req[t].pc = "reg_new"
    /\ \E id \in ids, now \in FirstWriteTimes(req[t]) :
         IF Exists(id)
         THEN \* INSERT fails on the primary key; the handler answers 500
              /\ Reply(t)
              /\ UNCHANGED <<users, committed>>
         ELSE /\ users' = (id :> NewUser(MiningRateOf(id), now)) @@ users
              /\ committed' = [committed EXCEPT !["registration"] = @ + 1]
              /\ Goto(t, [Free EXCEPT !.pc = "tx_lock", !.seq = CommitSeq, !.op = "register", !.dev = id,
                                      !.out = 0, !.out2 = MiningRateOf(id)])
    /\ UNCHANGED <<sessions, transactions, blocks, stats, lock, tick, restarts>>

(***************************************************************************)
(* get_balance                                                             *)
(***************************************************************************)
BalanceRead(t, ids) ==
    /\ IsFree(t)
    /\ \E dev \in ClientIds(ids) :
         LET r == [Free EXCEPT !.op = "balance", !.dev = dev]
         IN  IF BalanceOutcome(dev) # "ok" THEN Reject(t, r, BalanceOutcome(dev))
             ELSE Proceed(t, [r EXCEPT !.ts = Now, !.pc = "gb_touch",
                                       !.bal = users[dev].balance])
    /\ UNCHANGED <<lock, tick, committed, restarts>>

\* answers the balance it read
BalanceTouch(t) ==
    /\ req[t].pc = "gb_touch"
    /\ \E now \in FirstWriteTimes(req[t]) :
         users' = [users EXCEPT ![req[t].dev].last_activity = now]
    /\ Reply(t)
    /\ UNCHANGED <<sessions, transactions, blocks, stats, lock, tick, committed, restarts>>

(***************************************************************************)
(* start_mining                                                            *)
(***************************************************************************)
\* The user row is never deleted, so the SELECT of the user and the SELECT
\* of the active session are taken as one read.
StartRead(t, ids) ==
    /\ IsFree(t)
    /\ \E dev \in ClientIds(ids) :
         LET r == [Free EXCEPT !.op = "start", !.dev = dev]
         IN  IF StartOutcome(dev) # "ok" THEN Reject(t, r, StartOutcome(dev))
             ELSE Proceed(t, [r EXCEPT !.ts = Now, !.pc = "start_commit"])
    /\ UNCHANGED <<lock, tick, committed, restarts>>

StartCommit(t) ==
    /\ req[t].pc = "start_commit"
    /\ \E now \in FirstWriteTimes(req[t]) :
         sessions' = Append(sessions,
             [device_id |-> req[t].dev, start_time |-> now, end_time |-> NoTime,
              duration_seconds |-> 0, tokens_earned |-> 0, status |-> "active"])
    /\ users' = [users EXCEPT ![req[t].dev].last_activity = Now]
    /\ committed' = [committed EXCEPT !["mining_start"] = @ + 1]
    /\ Goto(t, [Free EXCEPT !.pc = "tx_lock", !.seq = CommitSeq, !.op = "start", !.dev = req[t].dev,
                            !.out = Len(sessions) + 1])
    /\ UNCHANGED <<transactions, blocks, stats, lock, tick, restarts>>

(***************************************************************************)
(* stop_mining                                                             *)
(***************************************************************************)
StopReadSession(t, ids) ==
    /\ IsFree(t)
    /\ \E dev \in ClientIds(ids) :
         LET r == [Free EXCEPT !.op = "stop", !.dev = dev]
         IN  IF StopOutcome(dev) # "ok" THEN Reject(t, r, StopOutcome(dev))
             ELSE \E sid \in LatestActive(dev) :
                    Proceed(t, [r EXCEPT !.pc = "stop_user", !.sid = sid])
    /\ UNCHANGED <<lock, tick, committed, restarts>>

\* SELECT of the user, end_time = datetime.now(), earned and new_balance
StopReadUser(t) ==
    /\ req[t].pc = "stop_user"
    /\ LET r == req[t]
           earned == Earned(Now - sessions[r.sid].start_time, users[r.dev].mining_rate)
       IN  Goto(t, [r EXCEPT !.pc = "stop_commit", !.ts = Now,
                             !.bal = users[r.dev].balance, !.earned = earned])
    /\ UNCHANGED <<store, lock, tick, committed, restarts>>

\* new_balance = round(user['balance'] + earned, 4)
MinedNewBalance(balance, earned) == Round4(balance + earned)

StopCommit(t) ==
    /\ req[t].pc = "stop_commit"
    /\ LET r == req[t]
           new_balance == MinedNewBalance(r.bal, r.earned)
       IN  /\ sessions' = [sessions EXCEPT ![r.sid] =
                  [@ EXCEPT !.end_time = r.ts,
                            !.duration_seconds = r.ts - sessions[r.sid].start_time,
                            !.tokens_earned = r.earned,
                            !.status = "completed"]]
           /\ users' = [users EXCEPT ![r.dev] =
                  [@ EXCEPT !.balance = new_balance,
                            !.total_mined = @ + r.earned,
                            !.last_activity = Now]]
           /\ Goto(t, [Free EXCEPT !.pc = "tx_lock", !.seq = CommitSeq, !.op = "stop", !.dev = r.dev,
                                   !.sid = r.sid, !.earned = r.earned,
                                   !.out = r.earned, !.out2 = new_balance])
    /\ committed' = [committed EXCEPT !["mining_reward"] = @ + 1]
    /\ UNCHANGED <<transactions, blocks, stats, lock, tick, restarts>>

(***************************************************************************)
(* claim_faucet                                                            *)
(***************************************************************************)
FaucetRead(t, ids) ==
    /\ IsFree(t)
    /\ \E dev \in ClientIds(ids) :
         LET r == [Free EXCEPT !.op = "faucet", !.dev = dev]
         IN  IF FaucetOutcome(dev) # "ok" THEN Reject(t, r, FaucetOutcome(dev))
             ELSE Proceed(t, [r EXCEPT !.ts = Now, !.pc = "fa_commit",
                                       !.bal = users[dev].balance])
    /\ UNCHANGED <<lock, tick, committed, restarts>>

\* new_balance = round(user['balance'] + faucet_amount, 4)
FaucetNewBalance(balance) == Round4(balance + FaucetAmount)

FaucetCommit(t) ==
    /\ req[t].pc = "fa_commit"
    /\ LET r == req[t]
           new_balance == FaucetNewBalance(r.bal)
       IN  /\ \E now \in FirstWriteTimes(r) :
                users' = [users EXCEPT ![r.dev] =
                    [@ EXCEPT !.balance = new_balance,
                              !.last_faucet_claim = now,
                              !.total_received = @ + FaucetAmount,
                              !.last_activity = now]]
           /\ Goto(t, [Free EXCEPT !.pc = "tx_lock", !.seq = CommitSeq, !.op = "faucet", !.dev = r.dev,
                                   !.out = FaucetAmount, !.out2 = new_balance])
    /\ committed' = [committed EXCEPT !["faucet"] = @ + 1]
    /\ UNCHANGED <<sessions, transactions, blocks, stats, lock, tick, restarts>>

(***************************************************************************)
(* transfer_spm                                                            *)
(***************************************************************************)
TransferReadSender(t, ids) ==
    /\ IsFree(t)
    /\ \E from \in ClientIds(ids), to \in ClientIds(ids), amount \in Amounts :
         LET r == [Free EXCEPT !.op = "transfer", !.dev = from, !.to = to,
                               !.amt = amount]
         IN  IF TransferOutcome(from, to, amount) # "ok"
             THEN Reject(t, r, TransferOutcome(from, to, amount))
             ELSE Proceed(t, [r EXCEPT !.pc = "tr_recipient",
                                       !.bal = users[from].balance])
    /\ UNCHANGED <<lock, tick, committed, restarts>>

TransferReadRecipient(t) ==
    /\ req[t].pc = "tr_recipient"
    /\ Goto(t, [req[t] EXCEPT !.pc = "tr_commit", !.ts = Now,
                              !.tobal = IF Exists(req[t].to)
                                        THEN users[req[t].to].balance ELSE Absent])
    /\ UNCHANGED <<store, lock, tick, committed, restarts>>

\* sender_new_balance = round(sender['balance'] - amount, 4)
SenderNewBalance(balance, amount) == Round4(balance - amount)

\* recipient_new_balance = round(recipient_balance + amount, 4)
RecipientNewBalance(balance, amount) == Round4(balance + amount)

TransferCommit(t) ==
    /\ req[t].pc = "tr_commit"
    /\ LET r == req[t]
           recipient_balance == IF r.tobal = Absent THEN 0 ELSE r.tobal
       IN  IF r.tobal = Absent /\ Exists(r.to)
           THEN \* INSERT of the recipient fails on the primary key; 500
                /\ Reply(t)
                /\ UNCHANGED <<users, committed>>
           ELSE /\ \E now \in FirstWriteTimes(r) :
                     LET rows == IF r.tobal = Absent
                                 THEN (r.to :> NewUser(DefaultRateMilli, now)) @@ users
                                 ELSE users
                         debited == [rows EXCEPT ![r.dev] =
                             [@ EXCEPT !.balance = SenderNewBalance(r.bal, r.amt),
                                       !.total_sent = @ + r.amt,
                                       !.last_activity =
                                           IF r.tobal = Absent THEN Now ELSE now]]
                     IN  users' = [debited EXCEPT ![r.to] =
                             [@ EXCEPT !.balance =
                                           RecipientNewBalance(recipient_balance, r.amt),
                                       !.total_received = @ + r.amt,
                                       !.last_activity = Now]]
                /\ committed' = [committed EXCEPT !["transfer"] = @ + 1]
                /\ Goto(t, [Free EXCEPT !.pc = "tx_lock", !.seq = CommitSeq, !.op = "transfer",
                                        !.dev = r.dev, !.to = r.to, !.amt = r.amt,
                                        !.out = SenderNewBalance(r.bal, r.amt),
                                        !.out2 = RecipientNewBalance(recipient_balance,
                                                                     r.amt)])
    /\ UNCHANGED <<sessions, transactions, blocks, stats, lock, tick, restarts>>

(***************************************************************************)
(* The error answer of a handler: return jsonify({'success': False, ...})  *)
(***************************************************************************)
ReplyError(t) ==
    /\ req[t].pc = "err"
    /\ Reply(t)
    /\ UNCHANGED <<store, lock, tick, committed, restarts>>

(***************************************************************************)
(* add_transaction_to_blockchain: everything from `with blockchain_lock`   *)
(* to conn.commit().  Only this function writes transactions and blocks,   *)
(* and it holds the lock, so its statements are one step.  It then calls   *)
(* update_system_stats() with the lock still held.                         *)
(***************************************************************************)
AddTransaction(t) ==
    /\ req[t].pc = "tx_lock"
    /\ lock = 0
    /\ lock' = t
    /\ LET current == MaxBlockNumber
           p == PendingTx(req[t])
       IN  IF NeedNewBlock(TxCount)
           THEN LET number == NewBlockNumber(current)
                    previous_hash == NewPreviousHash(current)
                    block_hash == BlockHash(number, previous_hash, Now)
                IN  /\ blocks' = Append(blocks,
                           [block_number |-> number, block_hash |-> block_hash,
                            previous_hash |-> previous_hash, timestamp |-> Now,
                            transactions_count |-> 1])
                    /\ transactions' = Append(transactions,
                           p @@ [timestamp |-> Now, block_hash |-> block_hash])
           ELSE /\ blocks' = [i \in DOMAIN blocks |->
                       IF blocks[i].block_number = current
                       THEN [blocks[i] EXCEPT !.transactions_count = @ + 1]
                       ELSE blocks[i]]
                /\ transactions' = Append(transactions,
                       p @@ [timestamp |-> Now, block_hash |-> HashOfBlock(current)])
    /\ Goto(t, [req[t] EXCEPT !.pc = "stats_lock"])
    /\ UNCHANGED <<users, sessions, stats, tick, committed, restarts>>

(***************************************************************************)
(* get_blockchain_stats (and background_stats_updater, which only calls    *)
(* update_system_stats): the SELECT of the stats rows, then the call.      *)
(***************************************************************************)
GetStats(t) ==
    /\ IsFree(t)
    /\ Goto(t, [Free EXCEPT !.op = "getStats", !.pc = "stats_lock",
                            !.out = stats.total_users,
                            !.out2 = stats.total_transactions])
    /\ UNCHANGED <<store, lock, tick, committed, restarts>>

(***************************************************************************)
(* update_system_stats: `with blockchain_lock` (a threading.Lock, which is *)
(* not reentrant), the COUNT queries one by one, the write of the stats    *)
(* rows, the release of the lock and the return to the caller, which       *)
(* answers its request.                                                    *)
(***************************************************************************)
StatsBegin(t) ==
    /\ req[t].pc = "stats_lock"
    /\ lock = 0
    /\ lock' = t
    /\ Goto(t, [req[t] EXCEPT !.pc = "stats_active",
                              !.n1 = Len(blocks), !.n2 = Cardinality(DOMAIN users)])
    /\ UNCHANGED <<store, tick, committed, restarts>>

StatsActive(t) ==
    /\ req[t].pc = "stats_active"
    /\ Goto(t, [req[t] EXCEPT !.pc = "stats_write",
                              !.n3 = Cardinality({d \in DOMAIN users :
                                         users[d].last_activity > Now - ActiveWindow})])
    /\ UNCHANGED <<store, lock, tick, committed, restarts>>

StatsWrite(t) ==
    /\ req[t].pc = "stats_write"
    /\ LET active_miners ==
               Cardinality({i \in DOMAIN sessions : sessions[i].status = "active"})
       IN  stats' = [total_blocks |-> req[t].n1, total_users |-> req[t].n2,
                     active_users |-> req[t].n3,
                     total_transactions |-> Len(transactions),
                     total_hash_rate |-> active_miners * HashRatePerMinerTenths]
    /\ lock' = 0
    /\ Reply(t)
    /\ UNCHANGED <<users, sessions, transactions, blocks, tick, committed, restarts>>

(***************************************************************************)
(* The environment: the server clock advances; the process is restarted    *)
(* (module start-up: a new blockchain_lock, init_database() on the         *)
(* database file that is already there, no request in flight).             *)
(***************************************************************************)
Tick(max) ==
    /\ tick < max
    /\ tick' = tick + 1
    /\ UNCHANGED <<store, lock, req, committed, restarts>>

Restart(max) ==
    /\ restarts < max
    /\ restarts' = restarts + 1
    /\ lock' = 0
    /\ req' = [t \in Threads |-> Free]
    /\ UNCHANGED <<store, tick, committed>>

\* The arrival of a request and its first read
Arrive(t, ids) ==
    \/ RegisterRead(t, ids) \/ BalanceRead(t, ids)
    \/ StartRead(t, ids) \/ StopReadSession(t, ids)
    \/ FaucetRead(t, ids) \/ TransferReadSender(t, ids) \/ GetStats(t)

\* A step of a request that is already in flight
Continue(t) ==
    \/ RegisterTouch(t) \/ RegisterNew(t, DeviceIds) \/ BalanceTouch(t)
    \/ StartCommit(t) \/ StopReadUser(t) \/ StopCommit(t)
    \/ FaucetCommit(t)
    \/ TransferReadRecipient(t) \/ TransferCommit(t)
    \/ AddTransaction(t)
    \/ StatsBegin(t) \/ StatsActive(t) \/ StatsWrite(t)
    \/ ReplyError(t)

\* Concurrent request handlers on one store
Next ==
    \/ \E t \in Threads : Arrive(t, DeviceIds) \/ Continue(t)
    \/ Tick(MaxTicks)
    \/ Restart(MaxRestarts)

Spec == Init /\ [][Next]_vars

\* One handler at a time on one device, over many lives of the process: the
\* runs in which the transaction log grows past one block.
NextChain ==
    \/ RegisterRead(1, ChainIds) \/ RegisterTouch(1) \/ RegisterNew(1, ChainIds)
    \/ StartRead(1, ChainIds) \/ StartCommit(1)
    \/ StopReadSession(1, ChainIds) \/ StopReadUser(1) \/ StopCommit(1)
    \/ FaucetRead(1, ChainIds) \/ FaucetCommit(1)
    \/ AddTransaction(1)
    \/ ReplyError(1)
    \/ Tick(MaxChainTicks)
    \/ Restart(MaxChainRestarts)

ChainSpec == Init /\ [][NextChain]_vars

\* Concurrent register, start and stop requests for one device, over the
\* lives of the process it takes to register, start twice and stop.
NextMining ==
    \/ \E t \in Threads :
          \/ RegisterRead(t, ChainIds) \/ RegisterTouch(t) \/ RegisterNew(t, ChainIds)
          \/ StartRead(t, ChainIds) \/ StartCommit(t)
          \/ StopReadSession(t, ChainIds) \/ StopReadUser(t) \/ StopCommit(t)
          \/ AddTransaction(t)
          \/ ReplyError(t)
    \/ Tick(MaxMiningTicks)
    \/ Restart(MaxMiningRestarts)

MiningSpec == Init /\ [][NextMining]_vars

\* One handler at a time: register and faucet claims of one device while the
\* clock passes the 24 hours of the cooldown.
NextFaucet ==
    \/ RegisterRead(1, ChainIds) \/ RegisterTouch(1) \/ RegisterNew(1, ChainIds)
    \/ FaucetRead(1, ChainIds) \/ FaucetCommit(1)
    \/ AddTransaction(1)
    \/ ReplyError(1)
    \/ Tick(MaxFaucetTicks)
    \/ Restart(MaxFaucetRestarts)

FaucetSpec == Init /\ [][NextFaucet]_vars

(***************************************************************************)
(* Properties.                                                             *)
(***************************************************************************)
TotalBalance == SumBalances(users, DOMAIN users)

BalanceOf(rows, d) == IF d \in DOMAIN rows THEN rows[d].balance ELSE 0

TxOfType(k) == {i \in DOMAIN transactions : transactions[i].type = k}

\* Thread t's handler has committed its change of the store
Committed(t) == req[t].pc \in {"tx_lock", "stats_lock", "stats_active", "stats_write"}
                  /\ req[t].op # "getStats"

\* The step in which thread t's transfer, stop, claim or registration commits
TransferCommits(t) == req[t].pc = "tr_commit" /\ req'[t].pc = "tx_lock"
StopCommits(t) == req[t].pc = "stop_commit" /\ req'[t].pc = "tx_lock"
FaucetCommits(t) == req[t].pc = "fa_commit" /\ req'[t].pc = "tx_lock"
RegisterSteps(t) == req[t].pc \in {"reg_new", "reg_touch"} /\ req'[t] # req[t]

\* C1: in every reachable state every device's stored balance is >= 0.
BalanceNonNegative == \A d \in DOMAIN users : users[d].balance >= 0

\* a transfer of the sender's whole balance has committed beside a device
\* that holds tokens
BalanceNonNegativeWitness ==
    \E t \in Threads :
        /\ req[t].op = "transfer" /\ Committed(t)
        /\ users[req[t].dev].balance = 0
        /\ users[req[t].to].balance > 0

\* C2: no double-spend: every transfer that succeeds debits a stored balance
\* that covers its amount, so of two transfers from one sender whose amounts
\* together exceed the balance at most one succeeds.
NoDoubleSpend ==
    [][\A t \in Threads :
          TransferCommits(t) => users[req[t].dev].balance >= req[t].amt]_vars

\* C3: conservation: a transfer of amount a that commits leaves the sender's
\* stored balance exactly a lower and the recipient's exactly a higher than
\* they were just before, and the sum of all balances the same.
Conservation ==
    [][\A t \in Threads :
          TransferCommits(t) =>
              /\ users'[req[t].dev].balance = users[req[t].dev].balance - req[t].amt
              /\ users'[req[t].to].balance = BalanceOf(users, req[t].to) + req[t].amt
              /\ TotalBalance' = TotalBalance]_vars

\* C4: emission: the sum of all balances grows only in the step that settles
\* a mining session (by the earned amount) or grants a faucet claim (by 100
\* SPM); no step of a registration or of a transfer changes the sum.
Emission ==
    [][/\ TotalBalance' > TotalBalance =>
            \E t \in Threads :
                \/ StopCommits(t) /\ TotalBalance' = TotalBalance + req[t].earned
                \/ FaucetCommits(t) /\ TotalBalance' = TotalBalance + FaucetAmount
       /\ \A t \in Threads :
            (TransferCommits(t) \/ RegisterSteps(t)) => TotalBalance' = TotalBalance
      ]_vars

\* C5: transfer atomicity: in no reachable state has a transfer's debit and
\* credit been applied to the balances without its one `transfer`
\* transaction being in the log.
TransferAtomic == committed["transfer"] = Cardinality(TxOfType("transfer"))

\* C6: every device has at most one mining session with status = active.
OneActiveSession == \A d \in DOMAIN users : Cardinality(ActiveSessions(d)) <= 1

\* C7: no double faucet claim: a claim that succeeds is at least 24 hours
\* after the device's previous successful claim.
FaucetSpacing ==
    [][\A t \in Threads :
          FaucetCommits(t) =>
              \/ users[req[t].dev].last_faucet_claim = NoTime
              \/ users'[req[t].dev].last_faucet_claim
                     - users[req[t].dev].last_faucet_claim >= Cooldown]_vars

\* C8: every invocation returns: whenever requests are in flight, one of them
\* can take its next step (none waits for a lock that is never released).
NoStuckRequest ==
    (\E t \in Threads : ~IsFree(t)) => \E t \in Threads : ENABLED Continue(t)

\* C9: the block numbers present are exactly 0..n without gap or repeat, and
\* every block k > 0 has previous_hash equal to the block_hash of block k-1.
BlockChainWellFormed ==
    /\ \A n \in 0..(Len(blocks) - 1) :
           Cardinality({i \in DOMAIN blocks : blocks[i].block_number = n}) = 1
    /\ \A i \in DOMAIN blocks : blocks[i].block_number \in 0..(Len(blocks) - 1)
    /\ \A i, j \in DOMAIN blocks :
           blocks[i].block_number = blocks[j].block_number + 1
               => blocks[i].previous_hash = blocks[j].block_hash

\* a second block has been opened and has taken a further transaction
BlockChainWitness ==
    /\ Len(blocks) >= 2
    /\ \E i \in DOMAIN blocks :
           blocks[i].block_number = 1 /\ blocks[i].transactions_count >= 2

\* C10: once no request can take a further step, the log holds, for each
\* type, exactly one transaction per operation of that kind that succeeded
\* (whose change of the store committed); stated for the first life of the
\* process, in which no request has been cut short.
OneTransactionPerOperation ==
    (restarts = 0 /\ \A t \in Threads : ~ENABLED Continue(t)) =>
        \A k \in Kinds : Cardinality(TxOfType(k)) = committed[k]

\* The step in which thread t's transaction is appended to the log
Appends(t) == req[t].pc = "tx_lock" /\ req'[t].pc = "stats_lock"

\* The number of the block a logged transaction refers to
BlockNumberOf(bs, tx) ==
    bs[CHOOSE k \in DOMAIN bs : bs[k].block_hash = tx.block_hash].block_number

\* C11: the log follows the commit order: when an operation's transaction is
\* appended, no operation that committed earlier still waits for its append,
\* and the transaction goes to the end of the log in a block numbered no
\* lower than any block used so far.
LogFollowsCommitOrder ==
    [][\A t \in Threads :
          Appends(t) =>
              /\ \A u \in Threads \ {t} :
                     req[u].pc = "tx_lock" => req[u].seq > req[t].seq
              /\ Len(transactions') = Len(transactions) + 1
              /\ \A i \in DOMAIN transactions :
                     /\ transactions'[i] = transactions[i]
                     /\ BlockNumberOf(blocks', transactions'[i])
                            <= BlockNumberOf(blocks', transactions'[Len(transactions')])
      ]_vars

\* The step in which thread t's handler finds a domain error, or answers it
FindsError(t) == req[t].pc # "err" /\ req'[t].pc = "err"
AnswersError(t) == req[t].pc = "err" /\ req'[t].pc = "done"

\* C12: an operation that ends with a domain error leaves the whole store
\* unchanged: neither the step that finds the error nor the step that answers
\* it changes a device, session, transaction, block or stat.
DomainErrorsChangeNothing ==
    [][\A t \in Threads : (FindsError(t) \/ AnswersError(t)) => store' = store]_vars

\* a claim is being refused with Cooldown on a device that holds tokens, while
\* another request is in flight
DomainErrorWitness ==
    \E t \in Threads :
        /\ req[t].pc = "err" /\ req[t].code = "Cooldown"
        /\ users[req[t].dev].balance > 0
        /\ \E u \in Threads \ {t} : ~IsFree(u)

\* The step in which thread t takes up a request of kind op and examines it
TakesUp(t, op) == req[t].pc = "done" /\ req'[t].pc # "done" /\ req'[t].op = op

\* What a transfer must answer on the balances as they are stored
TransferVerdict(from, to, amount) ==
    IF from = "" \/ to = "" \/ amount <= 0 \/ from = to THEN "InvalidArgument"
    ELSE IF from \notin DOMAIN users THEN "NotFound"
    ELSE IF users[from].balance < amount THEN "InsufficientBalance"
    ELSE "ok"

\* C13: a transfer succeeds if and only if both identifiers are non-empty,
\* amount > 0, from # to, the sender exists and its balance covers the amount;
\* otherwise it is refused with InvalidArgument, NotFound or
\* InsufficientBalance, checked in that order.  So a request that is refused
\* carries the code of the first condition it fails, and a request that
\* passes every condition applies its debit and credit.
TransferSucceedsIffValid ==
    [][\A t \in Threads :
          /\ TakesUp(t, "transfer") =>
                LET verdict == TransferVerdict(req'[t].dev, req'[t].to, req'[t].amt)
                IN  IF verdict = "ok" THEN req'[t].pc # "err"
                    ELSE req'[t].pc = "err" /\ req'[t].code = verdict
          /\ (req[t].pc = "tr_commit" /\ req'[t].pc # "tr_commit"
                  /\ restarts' = restarts) => TransferCommits(t)
      ]_vars

\* C14: mining exclusivity, idle -> active -> idle: a start for a device whose
\* earlier start has committed and has not been stopped is refused with
\* Conflict; a start for an idle registered device is accepted; and once a
\* stop has committed the device is idle again (it has no active session, so
\* the next start is accepted).
MiningExclusive ==
    [][\A t \in Threads :
          /\ (TakesUp(t, "start") /\ req'[t].dev \in DOMAIN users) =>
                IF ActiveSessions(req'[t].dev) # {}
                THEN req'[t].pc = "err" /\ req'[t].code = "Conflict"
                ELSE req'[t].pc = "start_commit"
          /\ StopCommits(t) =>
                {i \in DOMAIN sessions' :
                    /\ sessions'[i].device_id = req[t].dev
                    /\ sessions'[i].status = "active"} = {}
      ]_vars

\* A request that took effect can go on towards its answer
Answerable(t) == Committed(t) => ENABLED Continue(t)

\* The cooldown decision and the effect of a granted claim
FaucetDecision ==
    \A t \in Threads :
        /\ (TakesUp(t, "faucet") /\ req'[t].dev \in DOMAIN users) =>
              LET last == users[req'[t].dev].last_faucet_claim
              IN  IF last # NoTime /\ Now - last < CooldownHours * 3600
                  THEN req'[t].pc = "err" /\ req'[t].code = "Cooldown"
                  ELSE req'[t].pc = "fa_commit"
        /\ FaucetCommits(t) =>
              /\ users'[req[t].dev].balance
                     = users[req[t].dev].balance + FaucetSPM * Scale
              /\ users'[req[t].dev].last_faucet_claim \in req[t].ts..Now

\* C15: faucet cooldown in a sequential run: a claim less than 24 hours after
\* the device's last successful claim is refused with Cooldown; a claim 24
\* hours or more after it, or by a device that never claimed, succeeds: it
\* credits exactly 100 SPM, sets last_faucet_claim to the time of the claim,
\* and is answered.
FaucetCooldownSequential ==
    /\ [][FaucetDecision]_vars
    /\ [](\A t \in Threads : req[t].op = "faucet" => Answerable(t))

\* C16: idempotent reconnect: a registration with a known identifier answers
\* the balance stored for that device when the handler reads it, adds no
\* device row, changes no balance, and ends without appending a transaction.
ReconnectIdempotent ==
    [][\A t \in Threads :
          /\ (TakesUp(t, "register") /\ req'[t].dev \in DOMAIN users) =>
                /\ req'[t].pc = "reg_touch"
                /\ req'[t].bal = users[req'[t].dev].balance
                /\ store' = store
          /\ (req[t].pc = "reg_touch" /\ req'[t] # req[t]) =>
                /\ req'[t].pc = "done"
                /\ DOMAIN users' = DOMAIN users
                /\ \A d \in DOMAIN users : users'[d].balance = users[d].balance
                /\ transactions' = transactions
                /\ sessions' = sessions /\ blocks' = blocks
      ]_vars

\* a device that holds tokens has reconnected while another request is in
\* flight
ReconnectWitness ==
    \E t \in Threads :
        /\ req[t].pc = "reg_touch" /\ req[t].bal > 0
        /\ \E u \in Threads \ {t} : ~IsFree(u)

\* The effect of a stop that commits: what it answers and what it stores
StopSettlement ==
    \A t \in Threads :
        StopCommits(t) =>
            LET d == req[t].dev
                sid == req[t].sid
                seconds == req[t].ts - sessions[sid].start_time
                \* (seconds / 60) minutes * (mining_rate / 1000) SPM, in 1/10000 SPM
                earned == RoundDiv(seconds * users[d].mining_rate * Scale, 60 * 1000)
            IN  /\ req'[t].out = earned
                /\ req'[t].out2 = users[d].balance + earned
                /\ sessions'[sid].status = "completed"
                /\ sessions'[sid].tokens_earned = earned
                /\ users'[d].balance = users[d].balance + earned
                /\ users'[d].total_mined = users[d].total_mined + earned

\* C17: with no other operation interleaved, a stop on a device with an
\* active session returns earned = minutes since start_time * mining_rate
\* rounded to 4 decimals, marks the session completed with that
\* tokens_earned, and leaves the stored balance equal to the returned new
\* balance = previous balance + earned and total_mined increased by earned.
StopSettlesSequential ==
    /\ [][StopSettlement]_vars
    /\ [](\A t \in Threads : req[t].op = "stop" => Answerable(t))

\* C18: the stored stats describe one single state of the store: the counts
\* written by a recomputation are never a mix of the store before and after
\* a concurrent write, so the stored active_users (devices active in the last
\* 24 hours) never exceeds the stored total_users.
StatsSnapshot == stats.active_users <= stats.total_users

\* The transactions that refer to block b, and the highest-numbered block
TxOfBlock(b) == {j \in DOMAIN transactions : transactions[j].block_hash = b.block_hash}
IsOpenBlock(b) == b.block_number = MaxBlockNumber

\* C19: every block's transactions_count equals the number of transactions
\* that refer to it, no block holds more than 10, every block but the
\* highest-numbered one holds exactly 10, and the next append opens a new
\* block exactly when the highest-numbered block holds 10.
BlockCounts ==
    /\ \A i \in DOMAIN blocks :
           /\ blocks[i].transactions_count = Cardinality(TxOfBlock(blocks[i]))
           /\ blocks[i].transactions_count <= 10
           /\ ~IsOpenBlock(blocks[i]) => blocks[i].transactions_count = 10
    /\ (TxCount > 0 /\ TxCount % 10 = 0) <=>
           \E i \in DOMAIN blocks :
               IsOpenBlock(blocks[i]) /\ blocks[i].transactions_count = 10

\* block 0 is full and block 1 has just been opened with its first transaction
BlockCountsWitness ==
    /\ Len(blocks) = 2
    /\ \E i, j \in DOMAIN blocks :
           /\ blocks[i].block_number = 0 /\ blocks[i].transactions_count = 10
           /\ blocks[j].block_number = 1 /\ blocks[j].transactions_count = 1

\* C20: every mining session is settled at most once: a stop that succeeds
\* settles a session that is still active, and a session that is completed
\* never changes again (its end_time, duration and tokens_earned stay, and no
\* second reward is credited for it).
SettledOnce ==
    [][/\ \A t \in Threads :
             StopCommits(t) => sessions[req[t].sid].status = "active"
       /\ \A i \in DOMAIN sessions :
             sessions[i].status = "completed" => sessions'[i] = sessions[i]
      ]_vars

FreshIdentifier ==
    [][\A t \in Threads :
          (req[t].pc = "reg_new" /\ req'[t] # req[t] /\ restarts' = restarts) =>
              /\ req'[t].pc = "tx_lock"
              /\ req'[t].dev \notin DOMAIN users
              /\ DOMAIN users' = DOMAIN users \cup {req'[t].dev}
              /\ \A d \in DOMAIN users : users'[d] = users[d]
      ]_vars

\* C23: the read operations leave every attribute of every device row
\* (last_activity included) unchanged: no step of a getBalance or getStats
\* request changes the users table.
ReadsLeaveDevices ==
    [][\A t \in Threads :
          (req[t].op \in {"balance", "getStats"} /\ req'[t] # req[t]) =>
              users' = users
      ]_vars

\* C24: the ledger is append-only: every logged transaction stays in the log
\* with identical fields (its block reference included), blocks are never
\* removed or renumbered and keep their block_hash and previous_hash, and a
\* block below the highest-numbered one never changes at all: only the
\* highest-numbered block can have its transactions_count modified.
AppendOnly ==
    [][/\ Len(transactions') >= Len(transactions)
       /\ \A i \in DOMAIN transactions : transactions'[i] = transactions[i]
       /\ Len(blocks') >= Len(blocks)
       /\ \A i \in DOMAIN blocks :
             /\ blocks'[i].block_number = blocks[i].block_number
             /\ blocks'[i].block_hash = blocks[i].block_hash
             /\ blocks'[i].previous_hash = blocks[i].previous_hash
             /\ (\E j \in DOMAIN blocks :
                    blocks[j].block_number > blocks[i].block_number)
                   => blocks'[i] = blocks[i]
      ]_vars

\* a transaction has been added to block 1 while block 0 is closed
AppendOnlyWitness ==
    /\ Len(blocks) = 2
    /\ \E i \in DOMAIN blocks :
           blocks[i].block_number = 1 /\ blocks[i].transactions_count = 2
    /\ Len(transactions) = 12

\* C25: for every device the stored last_activity never decreases from one
\* state to the next (the server clock never goes back).
ActivityMonotone ==
    [][\A d \in DOMAIN users : users'[d].last_activity >= users[d].last_activity]_vars

\* C26: every device satisfies
\* balance = total_mined + total_received - total_sent in every reachable state.
TotalsIdentity ==
    \A d \in DOMAIN users :
        users[d].balance
            = users[d].total_mined + users[d].total_received - users[d].total_sent

\* The sum of the amounts of the logged transactions with the indices in idx
RECURSIVE SumAmounts(_)
SumAmounts(idx) ==
    IF idx = {} THEN 0
    ELSE LET i == CHOOSE x \in idx : TRUE
         IN  transactions[i].amount + SumAmounts(idx \ {i})

LoggedTo(d) == SumAmounts({i \in DOMAIN transactions : transactions[i].to = d})
LoggedFrom(d) == SumAmounts({i \in DOMAIN transactions : transactions[i].from = d})

\* C27: the log reconciles with the balances: whenever no request is in
\* progress, each device's balance equals the logged amounts it received
\* minus the logged amounts it sent.
LogReconciles ==
    (\A t \in Threads : IsFree(t)) =>
        \A d \in DOMAIN users : users[d].balance = LoggedTo(d) - LoggedFrom(d)

====
